---- MODULE Spec2Model ----
(***************************************************************************)
(* Model of the workflow orchestration engine of workflow-orchestration.py *)
(* (WorkflowOrchestrator, Task, Workflow, Agent, EventBus).  Task          *)
(* timestamps, names, payloads and logging are left out: nothing the       *)
(* engine decides depends on them.                                         *)
(*                                                                         *)
(* Spec: one orchestrator drives one freshly built Workflow object through *)
(* one call of execute_workflow.  SpecRuns lets further calls follow on    *)
(* the same orchestrator, SpecAgents runs over registries whose agents     *)
(* differ in health, SpecLoad over an agent with a low ceiling, SpecLive   *)
(* is Spec under fair scheduling, SpecBus drives an EventBus of its own,   *)
(* and SpecDelay applies the retry delay calculation to policies and       *)
(* attempt counts.                                                         *)
(* The engine is asyncio code: a coroutine runs without interruption from  *)
(* one suspension point to the next.  The suspension points of a run are   *)
(* the awaited agent call (asyncio.wait_for), the backoff asyncio.sleep    *)
(* and asyncio.gather.  Every action below is one such uninterrupted       *)
(* segment or a part of one; the administrative operations and            *)
(* register_agent only act while the run is suspended (Yielded).  The      *)
(* callbacks the orchestrator subscribes on its own bus only log and do    *)
(* not suspend, so a publish made by the run is part of the segment that   *)
(* makes it; on the bus of SpecBus callbacks may suspend.                  *)
(***************************************************************************)
EXTENDS Integers, Sequences, FiniteSets, TLC

\* ------------------------------------------------------------------ bounds
\* Largest max_attempts a retry policy of the modelled workflows carries.
MaxAttempts == 2
\* Largest reading of the wall clock (datetime.now()).
MaxClock == 1
\* Largest number of agents registered for one capability type.
MaxAgents == 2

\* --------------------------------------------------------------- constants
\* Python's None, and a value that is present (Optional[...] fields and returns).
NoneVal == << >>
Some(x) == <<x>>

\* WorkflowStatus / TaskStatus values (the enums' .value strings).
WorkflowStatus == {"pending", "running", "completed", "failed", "cancelled", "paused"}
TaskStatus == {"pending", "running", "completed", "failed", "skipped", "retrying"}
FailureStrategies == {"stop_on_error", "continue_on_error", "retry_failed"}

\* The workflow object that is executed, and an id no workflow ever has.
WorkflowId == "w1"
UnknownId == "w2"
WorkflowIds == {WorkflowId, UnknownId}

\* The task graph is static: stage 1 holds t1, t2, t3 and runs in either mode under
\* any failure strategy, stage 2 holds t4.
TaskIds == {"t1", "t2", "t3", "t4"}
StageTasks == << <<"t1", "t2", "t3">>, <<"t4">> >>
NumStages == Len(StageTasks)

\* Capability types of the tasks.
AgentTypeOf == [t \in TaskIds |-> IF t = "t1" THEN "testing" ELSE "code_generation"]

\* Tasks built without dependencies.
NoDeps == [t \in TaskIds |-> << >>]

\* Dependency lists the modelled workflows are built with: none; a chain through the
\* stages; every task of stage 1 waiting for the task of stage 2; the last task of
\* stage 1 waiting for the first.
DepChoices ==
  { NoDeps,
    [t \in TaskIds |-> CASE t = "t2" -> <<"t1">>
                         [] t = "t3" -> <<"t2">>
                         [] t = "t4" -> <<"t3">>
                         [] OTHER -> << >>],
    [t \in TaskIds |-> IF t = "t4" THEN << >> ELSE <<"t4">>],
    [t \in TaskIds |-> IF t = "t3" THEN <<"t1">> ELSE << >>] }

\* The tasks whose retry policy allows the chosen number of attempts; the other tasks
\* are built with RetryPolicy(max_attempts=1).
RetryingTasks == {"t1"}

\* Agent(agent_id, agent_type) after __init__.
Agent(id, ty) ==
  [agent_id |-> id, agent_type |-> ty, status |-> "active",
   current_tasks |-> 0, max_concurrent_tasks |-> 5]

\* Capability types agents are registered for.
AgentTypes == {"code_generation", "testing"}

\* The id of the i-th agent registered for a capability type: a1, a2, ... for
\* "code_generation", b1, b2, ... for "testing".
AgentName(ty, i) == (IF ty = "testing" THEN "b" ELSE "a") \o ToString(i)

\* Registries the orchestrator has when the workflow is handed to it: as __init__
\* leaves it (no agent, line 151), or after register_agent calls for one type or both.
AgentChoices ==
  { [ty \in {} |-> << >>],
    [ty \in {"code_generation", "testing"} |-> <<Agent(AgentName(ty, 1), ty)>>],
    [ty \in {"code_generation"} |-> <<Agent(AgentName(ty, 1), ty)>>] }

VARIABLES
  workflow,          \* the Workflow object: status, current_stage, timestamps, error
  stages,            \* workflow.stages: per stage its tasks, mode and failure strategy
  task,              \* the Task objects, by id
  active_workflows,  \* ids registered in orchestrator.active_workflows
  task_results,      \* orchestrator.task_results: task id -> result
  agents,            \* orchestrator.agents: agent type -> list of agents
  published,         \* every EventBus.publish call so far, in order
  pc,                \* position of the execute_workflow coroutine
  stage_index,       \* loop variable of execute_workflow (0-based)
  seq_index,         \* position of _execute_tasks_sequential in the stage's task list
  launched,          \* per stage: executable_tasks handed to asyncio.gather
  tpc,               \* position of each task's _execute_task coroutine
  ret,               \* value returned by each task's _execute_task
  stage_success,     \* per stage: value returned by _execute_stage
  wf_result,         \* value returned by execute_workflow
  dispatched,        \* how many times _execute_task was entered for each task
  writes,            \* how many times each key of task_results was assigned
  agent_of,          \* per task: what _get_available_agent returned last (local agent)
  run,               \* how many execute_workflow calls the orchestrator was given
  subscribers,       \* EventBus.subscribers: event type -> list of callbacks
  invoked,           \* every publish call and callback invocation so far, in order
  publishing,        \* every EventBus.publish call so far: where its loop stands
  delay_call         \* the last _calculate_retry_delay call: arguments and results

vars == <<workflow, stages, task, active_workflows, task_results, agents, published,
          pc, stage_index, seq_index, launched, tpc, ret, stage_success,
          wf_result, dispatched, writes, agent_of, run, subscribers, invoked,
          publishing, delay_call>>

\* The event bus under observation.
busVars == <<subscribers, invoked, publishing>>

\* The orchestrator, its workflow and the run.
orchVars == <<workflow, stages, task, active_workflows, task_results, agents, published,
              pc, stage_index, seq_index, launched, tpc, ret, stage_success,
              wf_result, dispatched, writes, agent_of, run>>

\* Variables of the run itself (everything an administrative operation leaves alone).
runVars == <<stages, task, task_results, agents, published, pc, stage_index, seq_index,
             launched, tpc, ret, stage_success, wf_result, dispatched, writes,
             agent_of, run, busVars, delay_call>>

\* ----------------------------------------------------------------- helpers
\* Task(...) as constructed: PENDING, no output, no error, attempt_count 0.
NewTask(t, deps, maxAtt) ==
  [id |-> t, agent_type |-> AgentTypeOf[t], dependencies |-> deps,
   max_attempts |-> maxAtt, status |-> "pending", output_data |-> NoneVal,
   error_details |-> NoneVal, attempt_count |-> 0]

\* WorkflowStage(name, tasks) with the dataclass defaults.
DefaultStage(tasks) ==
  [tasks |-> tasks, parallel_execution |-> FALSE, failure_strategy |-> "stop_on_error"]

\* Workflow(...) as constructed.
NewWorkflow ==
  [id |-> WorkflowId, status |-> "pending", current_stage |-> 0,
   started_at |-> NoneVal, completed_at |-> NoneVal, error_details |-> NoneVal]

\* The value an agent returns for a task (Agent.execute_task).
ResultOf(t) == [status |-> "success", task |-> t]

\* Variant of health_check: the load of the agent is not looked at.
health_check_status_only(a) == a.status = "active"

\* Agent.health_check
health_check(a) == a.status = "active" /\ a.current_tasks < a.max_concurrent_tasks

\* _get_available_agent: first healthy agent of the type, in registration order.
RECURSIVE ScanAgents(_, _)
ScanAgents(list, i) ==
  IF i > Len(list) THEN NoneVal
  ELSE IF health_check(list[i]) THEN Some(list[i].agent_id)
  ELSE ScanAgents(list, i + 1)

get_available_agent(ty) ==
  IF ty \notin DOMAIN agents THEN NoneVal ELSE ScanAgents(agents[ty], 1)

\* Variant of can_execute_task: the dependency check is left out.
can_execute_unchecked(t) == TRUE

\* _can_execute_task: every dependency id has a recorded result.
can_execute_task(t) ==
  \A i \in 1..Len(task[t].dependencies) : task[t].dependencies[i] \in DOMAIN task_results

\* The task the sequential walk is at.
SeqTask == stages[stage_index + 1].tasks[seq_index]

\* datetime.now(): the wall clock is read.  A reading is never earlier than a reading
\* taken before it; readings are bounded by MaxClock.
LastReading ==
  IF workflow.completed_at # NoneVal THEN workflow.completed_at[1]
  ELSE IF workflow.started_at # NoneVal THEN workflow.started_at[1]
  ELSE 0
Now == LastReading..MaxClock

\* The run is suspended: the event loop is free to run other callbacks.
Yielded ==
  \/ pc \in {"idle", "done", "raised"}
  \/ pc = "gather" /\ \A t \in TaskIds : tpc[t] # "entered"
  \/ pc = "seq_await" /\ tpc[SeqTask] \in {"agent", "sleep"}

\* WorkflowOrchestrator.__init__ lines 156-158: the handlers the orchestrator
\* subscribes on its own bus.
OrchestratorSubscribers ==
  [e \in {"task.completed", "task.failed", "agent.unavailable"} |->
     CASE e = "task.completed" -> <<"_handle_task_completed">>
       [] e = "task.failed" -> <<"_handle_task_failed">>
       [] OTHER -> <<"_handle_agent_unavailable">>]

\* -------------------------------------------------------------------- Init
\* An orchestrator with the registry reg and nothing run yet, and a workflow built
\* with the given stage 1 mode and failure strategy, dependency lists and retry bound.
Built(par, fs, deps, m, reg) ==
  /\ workflow = NewWorkflow
  /\ stages = [i \in 1..NumStages |->
                IF i = 1
                THEN [tasks |-> StageTasks[i], parallel_execution |-> par,
                      failure_strategy |-> fs]
                ELSE DefaultStage(StageTasks[i])]
  /\ task = [t \in TaskIds |-> NewTask(t, deps[t], IF t \in RetryingTasks THEN m ELSE 1)]
  /\ active_workflows = {}
  /\ task_results = [x \in {} |-> NoneVal]
  /\ agents = reg
  /\ published = << >>
  /\ pc = "idle"
  /\ stage_index = 0
  /\ seq_index = 1
  /\ launched = [i \in 1..NumStages |-> NoneVal]
  /\ tpc = [t \in TaskIds |-> "none"]
  /\ ret = [t \in TaskIds |-> NoneVal]
  /\ stage_success = [i \in 1..NumStages |-> NoneVal]
  /\ wf_result = NoneVal
  /\ dispatched = [t \in TaskIds |-> 0]
  /\ writes = [x \in {} |-> 0]
  /\ agent_of = [t \in TaskIds |-> NoneVal]
  /\ run = 1

\* The orchestrator as constructed, with a registry and a workflow handed to it.
Init ==
  /\ \E par \in BOOLEAN, fs \in FailureStrategies, deps \in DepChoices,
        m \in 1..MaxAttempts, reg \in AgentChoices : Built(par, fs, deps, m, reg)
  /\ subscribers = OrchestratorSubscribers
  /\ invoked = << >>
  /\ publishing = << >>
  /\ delay_call = NoneVal

\* ------------------------------------------------------------ task dispatch
\* EventBus.publish as seen by an observer: the call is appended to the record of
\* published events (the orchestrator's own subscribers only log).
Publish(ev) == Append(published, ev)

\* Variants of AttemptsRemain: the bound is read off by one; the retry is left out.
AttemptsRemainInclusive(tk) == tk.attempt_count <= tk.max_attempts
AttemptsNeverRemain(tk) == FALSE

\* _handle_task_failure line 307: attempts remain under the retry policy.
AttemptsRemain(tk) == tk.attempt_count < tk.max_attempts

\* _handle_task_failure, entered with error_details already set on tk: either the
\* task goes RETRYING and the coroutine sleeps for the backoff delay, or it goes
\* FAILED, task.failed is published and _execute_task returns False.
handle_task_failure(t, tk) ==
  IF AttemptsRemain(tk)
  THEN /\ task' = [task EXCEPT ![t] = [tk EXCEPT !.status = "retrying"]]
       /\ tpc' = [tpc EXCEPT ![t] = "sleep"]
       /\ UNCHANGED <<ret, published>>
  ELSE /\ task' = [task EXCEPT ![t] = [tk EXCEPT !.status = "failed"]]
       /\ published' = Publish([type |-> "task.failed", workflow_id |-> workflow.id,
                                task_id |-> t, error |-> tk.error_details,
                                attempts |-> tk.attempt_count])
       /\ tpc' = [tpc EXCEPT ![t] = "done"]
       /\ ret' = [ret EXCEPT ![t] = Some(FALSE)]

\* _execute_task lines 260-264: the attempt is counted and the task goes RUNNING.
execute_task(t) ==
  /\ task' = [task EXCEPT ![t].attempt_count = @ + 1, ![t].status = "running"]
  /\ dispatched' = [dispatched EXCEPT ![t] = @ + 1]
  /\ tpc' = [tpc EXCEPT ![t] = "entered"]
  /\ UNCHANGED <<ret, published>>

\* What the task coroutines leave alone.
outsideTask == <<workflow, stages, active_workflows, agents, stage_index,
                 seq_index, launched, stage_success, wf_result, run, busVars,
                 delay_call>>

\* _execute_task lines 266-276: an agent is looked up; with one the coroutine awaits
\* agent.execute_task under the timeout, with none the failure path runs at once.
FindAgent(t) ==
  /\ tpc[t] = "entered"
  /\ agent_of' = [agent_of EXCEPT ![t] = get_available_agent(task[t].agent_type)]
  /\ IF get_available_agent(task[t].agent_type) = NoneVal
     THEN handle_task_failure(t, [task[t] EXCEPT !.error_details = Some("no_agent")])
     ELSE /\ tpc' = [tpc EXCEPT ![t] = "agent"]
          /\ UNCHANGED <<task, ret, published>>
  /\ UNCHANGED <<outsideTask, pc, dispatched, task_results, writes>>

\* Variant of StoreKey: the result is filed under the task's capability type.
StoreKeyByType(t) == task[t].agent_type

\* _execute_task line 283: the key a result is stored under, task.id.
StoreKey(t) == task[t].id

\* The awaited agent call returns within the timeout (lines 278-293).
AgentReturns(t) ==
  /\ tpc[t] = "agent"
  /\ task' = [task EXCEPT ![t].status = "completed", ![t].output_data = Some(ResultOf(t))]
  /\ task_results' = [x \in DOMAIN task_results \cup {StoreKey(t)} |->
                        IF x = StoreKey(t) THEN ResultOf(t) ELSE task_results[x]]
  /\ writes' = [x \in DOMAIN writes \cup {StoreKey(t)} |->
                  IF x # StoreKey(t) THEN writes[x]
                  ELSE IF x \in DOMAIN writes THEN writes[x] + 1 ELSE 1]
  /\ published' = Publish([type |-> "task.completed", workflow_id |-> workflow.id,
                           task_id |-> t, result |-> ResultOf(t)])
  /\ tpc' = [tpc EXCEPT ![t] = "done"]
  /\ ret' = [ret EXCEPT ![t] = Some(TRUE)]
  /\ UNCHANGED <<outsideTask, pc, dispatched, agent_of>>

\* The agent call exceeds task.timeout (lines 295-297).
AgentTimesOut(t) ==
  /\ tpc[t] = "agent"
  /\ handle_task_failure(t, [task[t] EXCEPT !.error_details = Some("timed_out")])
  /\ UNCHANGED <<outsideTask, pc, dispatched, task_results>>
  /\ UNCHANGED <<writes, agent_of>>

\* The agent call raises an Exception (lines 299-301).
AgentRaises(t) ==
  /\ tpc[t] = "agent"
  /\ handle_task_failure(t, [task[t] EXCEPT !.error_details = Some("agent_error")])
  /\ UNCHANGED <<outsideTask, pc, dispatched, task_results>>
  /\ UNCHANGED <<writes, agent_of>>

\* The agent call raises a BaseException that is not an Exception (for instance
\* asyncio.CancelledError): neither except clause of _execute_task (lines 295, 299)
\* catches it, so it leaves _execute_task with the task as it is.  Under asyncio.gather
\* (return_exceptions=True) it becomes the child's result.  In a sequential stage it
\* goes up through _execute_tasks_sequential and _execute_stage, is not caught at
\* line 213 either, and leaves execute_workflow.
AgentRaisesBaseException(t) ==
  /\ tpc[t] = "agent"
  /\ tpc' = [tpc EXCEPT ![t] = "raised"]
  /\ pc' = IF pc = "seq_await" THEN "raised" ELSE pc
  /\ UNCHANGED <<outsideTask, task, ret, published, dispatched, task_results, writes,
                 agent_of>>

\* The backoff sleep ends and _handle_task_failure re-enters _execute_task (line 315).
BackoffElapsed(t) ==
  /\ tpc[t] = "sleep"
  /\ execute_task(t)
  /\ UNCHANGED <<outsideTask, pc, task_results>>
  /\ UNCHANGED <<writes, agent_of>>

\* --------------------------------------------------------- execute_workflow
\* Lines 167-180: the run starts.  Clock readings are counted from the one taken here.
StartWorkflow ==
  /\ pc = "idle"
  /\ workflow' = [workflow EXCEPT !.status = "running", !.started_at = Some(0)]
  /\ active_workflows' = active_workflows \cup {workflow.id}
  /\ published' = Publish([type |-> "workflow.started", workflow_id |-> workflow.id])
  /\ pc' = "loop"
  /\ stage_index' = 0
  /\ UNCHANGED <<stages, task, task_results, agents, seq_index, launched, tpc,
                 ret, stage_success, wf_result, dispatched>>
  /\ UNCHANGED <<writes, agent_of, run, busVars, delay_call>>

\* Lines 183-187 and 226-231 for a sequential stage: the walk starts.
BeginStageSequential ==
  /\ pc = "loop"
  /\ stage_index < NumStages
  /\ ~stages[stage_index + 1].parallel_execution
  /\ workflow' = [workflow EXCEPT !.current_stage = stage_index]
  /\ pc' = "seq"
  /\ seq_index' = 1
  /\ UNCHANGED <<stages, task, active_workflows, task_results, agents, published,
                 stage_index, launched, tpc, ret, stage_success, wf_result, dispatched>>
  /\ UNCHANGED <<writes, agent_of, run, busVars, delay_call>>

\* Variant of StopsWalk: the walk goes on after a failed task.
StopsWalkNever(success) == FALSE

\* _execute_tasks_sequential line 240: a failed task ends the walk.
StopsWalk(success) == ~success

\* _execute_tasks_sequential lines 236-237: the task at hand is not eligible.
SeqSkip ==
  /\ pc = "seq"
  /\ seq_index <= Len(stages[stage_index + 1].tasks)
  /\ ~can_execute_task(SeqTask)
  /\ seq_index' = seq_index + 1
  /\ UNCHANGED <<workflow, stages, task, active_workflows, task_results, agents,
                 published, pc, stage_index, launched, tpc, ret, stage_success,
                 wf_result, dispatched>>
  /\ UNCHANGED <<writes, agent_of, run, busVars, delay_call>>

\* Variant of SeqDispatch: the task is started and the walk moves on without waiting
\* for it to return.
SeqDispatchNoWait ==
  /\ pc = "seq"
  /\ seq_index <= Len(stages[stage_index + 1].tasks)
  /\ can_execute_task(SeqTask)
  /\ execute_task(SeqTask)
  /\ seq_index' = seq_index + 1
  /\ UNCHANGED <<workflow, stages, active_workflows, agents, stage_index, launched,
                 stage_success, wf_result, pc, task_results, writes, agent_of, run,
                 busVars, delay_call>>

\* _execute_tasks_sequential line 239: the task at hand is eligible and dispatched.
SeqDispatch ==
  /\ pc = "seq"
  /\ seq_index <= Len(stages[stage_index + 1].tasks)
  /\ can_execute_task(SeqTask)
  /\ execute_task(SeqTask)
  /\ pc' = "seq_await"
  /\ UNCHANGED <<outsideTask, task_results>>
  /\ UNCHANGED <<writes, agent_of>>

\* _execute_tasks_sequential lines 239-241: _execute_task has returned.
SeqResume ==
  /\ pc = "seq_await"
  /\ tpc[SeqTask] = "done"
  /\ IF StopsWalk(ret[SeqTask][1])
     THEN /\ stage_success' = [stage_success EXCEPT ![stage_index + 1] = Some(FALSE)]
          /\ pc' = "stage_done"
          /\ UNCHANGED seq_index
     ELSE /\ seq_index' = seq_index + 1
          /\ pc' = "seq"
          /\ UNCHANGED stage_success
  /\ UNCHANGED <<workflow, stages, task, active_workflows, task_results, agents,
                 published, stage_index, launched, tpc, ret, wf_result, dispatched>>
  /\ UNCHANGED <<writes, agent_of, run, busVars, delay_call>>

\* _execute_tasks_sequential line 242: the walk reached the end of the list.
SeqReturn ==
  /\ pc = "seq"
  /\ seq_index > Len(stages[stage_index + 1].tasks)
  /\ stage_success' = [stage_success EXCEPT ![stage_index + 1] = Some(TRUE)]
  /\ pc' = "stage_done"
  /\ UNCHANGED <<workflow, stages, task, active_workflows, task_results, agents,
                 published, stage_index, seq_index, launched, tpc, ret,
                 wf_result, dispatched>>
  /\ UNCHANGED <<writes, agent_of, run, busVars, delay_call>>

\* Variant of ExecutableTasks: every task of the stage is launched.
ExecutableTasksAll(tasks) == tasks

\* _execute_tasks_parallel line 246: the tasks eligible now, in declared order.
ExecutableTasks(tasks) == SelectSeq(tasks, can_execute_task)

\* Lines 183-187 and 244-254 for a parallel stage: the eligible tasks are collected
\* once and handed to asyncio.gather, or the stage returns True when there are none.
BeginStageParallel ==
  /\ pc = "loop"
  /\ stage_index < NumStages
  /\ stages[stage_index + 1].parallel_execution
  /\ workflow' = [workflow EXCEPT !.current_stage = stage_index]
  /\ LET executable == ExecutableTasks(stages[stage_index + 1].tasks)
     IN /\ launched' = [launched EXCEPT ![stage_index + 1] = Some(executable)]
        /\ IF executable = << >>
           THEN /\ stage_success' = [stage_success EXCEPT ![stage_index + 1] = Some(TRUE)]
                /\ pc' = "stage_done"
                /\ UNCHANGED tpc
           ELSE /\ tpc' = [t \in TaskIds |->
                             IF \E i \in 1..Len(executable) : executable[i] = t
                             THEN "ready" ELSE tpc[t]]
                /\ pc' = "gather"
                /\ UNCHANGED stage_success
  /\ UNCHANGED <<stages, task, active_workflows, task_results, agents, published,
                 stage_index, seq_index, ret, wf_result, dispatched>>
  /\ UNCHANGED <<writes, agent_of, run, busVars, delay_call>>

\* A coroutine wrapped by asyncio.gather starts running; the event loop starts them
\* in the order they were handed over.
ChildStart(t) ==
  /\ pc = "gather"
  /\ tpc[t] = "ready"
  /\ LET l == launched[stage_index + 1][1]
     IN \E i \in 1..Len(l) : l[i] = t /\ \A j \in 1..(i - 1) : tpc[l[j]] # "ready"
  /\ execute_task(t)
  /\ UNCHANGED <<outsideTask, pc, task_results>>
  /\ UNCHANGED <<writes, agent_of>>

\* asyncio.gather resolves: every child has returned or raised.
GatherDone(l) == \A i \in 1..Len(l) : tpc[l[i]] \in {"done", "raised"}

\* _execute_tasks_parallel line 256: all(result is True ...).
GatherResult(l) == \A i \in 1..Len(l) : ret[l[i]] = Some(TRUE)

\* _execute_tasks_parallel lines 251-256: the join.
GatherJoin ==
  /\ pc = "gather"
  /\ GatherDone(launched[stage_index + 1][1])
  /\ stage_success' = [stage_success EXCEPT
                         ![stage_index + 1] = Some(GatherResult(launched[stage_index + 1][1]))]
  /\ pc' = "stage_done"
  /\ UNCHANGED <<workflow, stages, task, active_workflows, task_results, agents,
                 published, stage_index, seq_index, launched, tpc, ret,
                 wf_result, dispatched>>
  /\ UNCHANGED <<writes, agent_of, run, busVars, delay_call>>

\* Variant of HaltsRun: every stage failure ends the run.
HaltsRunAlways(success, strategy) == ~success

\* execute_workflow line 189: the stage failure ends the run.
HaltsRun(success, strategy) == ~success /\ strategy = "stop_on_error"

\* Lines 189-192: the stage failed under stop_on_error; the run returns False.
StageFailedStop ==
  /\ pc = "stage_done"
  /\ HaltsRun(stage_success[stage_index + 1][1], stages[stage_index + 1].failure_strategy)
  /\ workflow' = [workflow EXCEPT !.status = "failed",
                                  !.error_details = Some(<<"Stage failed", stage_index>>)]
  /\ wf_result' = Some(FALSE)
  /\ pc' = "done"
  /\ UNCHANGED <<stages, task, active_workflows, task_results, agents, published,
                 stage_index, seq_index, launched, tpc, ret, stage_success, dispatched>>
  /\ UNCHANGED <<writes, agent_of, run, busVars, delay_call>>

\* Lines 194-199: workflow.stage_completed is published and the loop goes on.
StageCompleted ==
  /\ pc = "stage_done"
  /\ ~HaltsRun(stage_success[stage_index + 1][1], stages[stage_index + 1].failure_strategy)
  /\ published' = Publish([type |-> "workflow.stage_completed",
                           workflow_id |-> workflow.id, stage_index |-> stage_index,
                           success |-> stage_success[stage_index + 1][1]])
  /\ stage_index' = stage_index + 1
  /\ pc' = "loop"
  /\ UNCHANGED <<workflow, stages, task, active_workflows, task_results, agents,
                 seq_index, launched, tpc, ret, stage_success, wf_result, dispatched>>
  /\ UNCHANGED <<writes, agent_of, run, busVars, delay_call>>

\* Lines 201-211: every stage was run; the run returns True.
CompleteWorkflow ==
  /\ pc = "loop"
  /\ stage_index = NumStages
  /\ \E now \in Now :
        workflow' = [workflow EXCEPT !.status = "completed", !.completed_at = Some(now)]
  /\ published' = Publish([type |-> "workflow.completed", workflow_id |-> workflow.id])
  /\ wf_result' = Some(TRUE)
  /\ pc' = "done"
  /\ UNCHANGED <<stages, task, active_workflows, task_results, agents, stage_index,
                 seq_index, launched, tpc, ret, stage_success, dispatched>>
  /\ UNCHANGED <<writes, agent_of, run, busVars, delay_call>>

\* ------------------------------------------------ administrative operations
\* pause_workflow: what it makes of the workflow object.
Paused(wf, id, active) ==
  IF id \in active THEN [wf EXCEPT !.status = "paused"] ELSE wf

\* resume_workflow: what it makes of the workflow object.
Resumed(wf, id, active) ==
  IF id \in active /\ wf.status = "paused" THEN [wf EXCEPT !.status = "running"] ELSE wf

\* cancel_workflow: what it makes of the workflow object when the clock reads now.
Cancelled(wf, id, active, now) ==
  IF id \in active THEN [wf EXCEPT !.status = "cancelled", !.completed_at = Some(now)] ELSE wf

pause_workflow(id) ==
  /\ Yielded
  /\ workflow' = Paused(workflow, id, active_workflows)
  /\ UNCHANGED <<runVars, active_workflows>>

resume_workflow(id) ==
  /\ Yielded
  /\ workflow' = Resumed(workflow, id, active_workflows)
  /\ UNCHANGED <<runVars, active_workflows>>

cancel_workflow(id) ==
  /\ Yielded
  /\ \E now \in Now : workflow' = Cancelled(workflow, id, active_workflows, now)
  /\ UNCHANGED <<runVars, active_workflows>>

\* ------------------------------------------------------------- registration
\* The agents handed to register_agent: one of each capability type, as
\* Agent.__init__ builds them; an agent may be handed over again.
AgentsToRegister == { Agent(AgentName(ty, 1), ty) : ty \in AgentTypes }

\* How many agents the list of a type holds.
NumRegistered(ty) == IF ty \in DOMAIN agents THEN Len(agents[ty]) ELSE 0

\* register_agent (lines 160-165): the agent is appended to the list of its type,
\* which is created if need be, whether or not the list holds it already.  The call
\* is synchronous; it is made before, after or while the run is suspended.  Bound:
\* the list of a type grows to MaxAgents agents.
register_agent(a) ==
  /\ Yielded
  /\ NumRegistered(a.agent_type) < MaxAgents
  /\ agents' = [ty \in DOMAIN agents \cup {a.agent_type} |->
                  IF ty # a.agent_type THEN agents[ty]
                  ELSE IF ty \in DOMAIN agents THEN Append(agents[ty], a)
                       ELSE <<a>>]
  /\ UNCHANGED <<workflow, stages, task, active_workflows, task_results, published, pc,
                 stage_index, seq_index, launched, tpc, ret, stage_success, wf_result,
                 dispatched, writes, agent_of, run, busVars, delay_call>>

\* -------------------------------------------------------------------- Next
Next ==
  \/ StartWorkflow
  \/ BeginStageSequential
  \/ SeqSkip
  \/ SeqDispatch
  \/ SeqResume
  \/ SeqReturn
  \/ BeginStageParallel
  \/ \E t \in TaskIds : ChildStart(t)
  \/ GatherJoin
  \/ \E t \in TaskIds : FindAgent(t)
  \/ \E t \in TaskIds : AgentReturns(t)
  \/ \E t \in TaskIds : AgentTimesOut(t)
  \/ \E t \in TaskIds : AgentRaises(t)
  \/ \E t \in TaskIds : AgentRaisesBaseException(t)
  \/ \E t \in TaskIds : BackoffElapsed(t)
  \/ StageFailedStop
  \/ StageCompleted
  \/ CompleteWorkflow
  \/ \E id \in WorkflowIds : pause_workflow(id)
  \/ \E id \in WorkflowIds : resume_workflow(id)
  \/ \E id \in WorkflowIds : cancel_workflow(id)
  \/ \E a \in AgentsToRegister : register_agent(a)

Spec == Init /\ [][Next]_vars

\* ------------------------------------------------------------------ progress
\* A step of the run itself: of execute_workflow or of one of its task coroutines.
RunStep ==
  \/ StartWorkflow
  \/ BeginStageSequential
  \/ SeqSkip
  \/ SeqDispatch
  \/ SeqResume
  \/ SeqReturn
  \/ BeginStageParallel
  \/ \E t \in TaskIds : ChildStart(t)
  \/ GatherJoin
  \/ \E t \in TaskIds : FindAgent(t)
  \/ \E t \in TaskIds : AgentReturns(t)
  \/ \E t \in TaskIds : AgentTimesOut(t)
  \/ \E t \in TaskIds : AgentRaises(t)
  \/ \E t \in TaskIds : AgentRaisesBaseException(t)
  \/ \E t \in TaskIds : BackoffElapsed(t)
  \/ StageFailedStop
  \/ StageCompleted
  \/ CompleteWorkflow

\* The event loop keeps running what is ready: the call is made, a coroutine that can
\* go on does, a sleep ends, and an awaited agent call returns, raises or hits its
\* timeout (asyncio.wait_for, lines 271-274).  Administrative calls may come at any
\* time and in any number.
SpecLive == Init /\ [][Next]_vars /\ WF_vars(RunStep)

\* ----------------------------------------------------------------- EventBus
\* An EventBus of its own (lines 126-143), driven by subscribe and publish calls made
\* by coroutines of one event loop.  Bounds: subscriptions made in all, and publish
\* calls made in all.
MaxSubs == 3
MaxPublishes == 2

\* Event types published on, callbacks that are subscribed, payloads passed.
EventTypes == {"task.completed", "task.failed"}
Callbacks == {"c1", "c2", "c3", "c4"}
Payloads == {"d1", "d2"}

\* What a callback does when it is awaited: c1 suspends once (it awaits something that
\* yields to the event loop) and then returns, c2 raises an Exception, c3 returns
\* without suspending, c4 raises a BaseException that is not an Exception.
Outcome ==
  [cb \in Callbacks |-> CASE cb = "c1" -> "suspends"
                          [] cb = "c2" -> "Exception"
                          [] cb = "c4" -> "BaseException"
                          [] OTHER -> "returns"]

\* Entries of the record of invocations.
PublishEntry(e, d) == [op |-> "publish", target |-> e, data |-> d]
CallEntry(cb, d) == [op |-> "call", target |-> cb, data |-> d]

\* Number of subscriptions held, and of publish calls made.
RECURSIVE SumLen(_, _)
SumLen(f, keys) ==
  IF keys = {} THEN 0
  ELSE LET k == CHOOSE x \in keys : TRUE IN Len(f[k]) + SumLen(f, keys \ {k})
NumSubs == SumLen(subscribers, DOMAIN subscribers)
NumPublishes == Len(publishing)

\* Whether an exception has left a publish call.
escaped == \E k \in 1..Len(publishing) : publishing[k].state = "raised"

\* publish line 142: what the except clause catches.
Caught(outcome) == outcome = "Exception"

\* publish lines 139-143: the loop over the subscribed callbacks from position i on,
\* as far as it runs without yielding to the event loop: until a callback suspends, an
\* exception leaves the loop, or the list is exhausted.  log is the record of
\* invocations; pos is the position of the callback reached last.
RECURSIVE Deliver(_, _, _, _)
Deliver(list, i, d, log) ==
  IF i > Len(list) THEN [log |-> log, pos |-> i - 1, state |-> "returned"]
  ELSE LET called == Append(log, CallEntry(list[i], d))
       IN CASE Outcome[list[i]] = "suspends" ->
                 [log |-> called, pos |-> i, state |-> "suspended"]
            [] Outcome[list[i]] = "returns" \/ Caught(Outcome[list[i]]) ->
                 Deliver(list, i + 1, d, called)
            [] OTHER -> [log |-> called, pos |-> i, state |-> "raised"]

\* EventBus() as constructed: no subscribers.
BusInit ==
  /\ Built(FALSE, "stop_on_error", [t \in TaskIds |-> << >>], 1,
           [ty \in {"code_generation"} |-> <<Agent("a1", ty)>>])
  /\ subscribers = [e \in {} |-> << >>]
  /\ invoked = << >>
  /\ publishing = << >>
  /\ delay_call = NoneVal

\* EventBus.subscribe (lines 132-135).
subscribe(e, cb) ==
  /\ NumSubs < MaxSubs
  /\ subscribers' = [x \in DOMAIN subscribers \cup {e} |->
                       IF x # e THEN subscribers[x]
                       ELSE IF e \in DOMAIN subscribers THEN Append(subscribers[e], cb)
                       ELSE <<cb>>]
  /\ UNCHANGED <<orchVars, invoked, publishing, delay_call>>

\* EventBus.publish (lines 137-143) is called: without a list for the event type it
\* returns at once (line 138); otherwise the loop runs from the first callback until
\* it yields to the event loop or ends.
publish(e, d) ==
  /\ NumPublishes < MaxPublishes
  /\ LET entered == Append(invoked, PublishEntry(e, d))
         left == IF e \in DOMAIN subscribers
                 THEN Deliver(subscribers[e], 1, d, entered)
                 ELSE [log |-> entered, pos |-> 0, state |-> "returned"]
     IN /\ invoked' = left.log
        /\ publishing' = Append(publishing, [event |-> e, data |-> d, pos |-> left.pos,
                                              state |-> left.state])
  /\ UNCHANGED <<orchVars, subscribers, delay_call>>

\* The callback a publish call is suspended in (line 141) returns: the loop goes on
\* with the next element of the list as it is now (list iteration, line 139).
publish_resumes(k) ==
  /\ k <= NumPublishes
  /\ publishing[k].state = "suspended"
  /\ LET p == publishing[k]
         left == Deliver(subscribers[p.event], p.pos + 1, p.data, invoked)
     IN /\ invoked' = left.log
        /\ publishing' = [publishing EXCEPT ![k].pos = left.pos, ![k].state = left.state]
  /\ UNCHANGED <<orchVars, subscribers, delay_call>>

BusNext ==
  \/ \E e \in EventTypes, cb \in Callbacks : subscribe(e, cb)
  \/ \E e \in EventTypes, d \in Payloads : publish(e, d)
  \/ \E k \in 1..MaxPublishes : publish_resumes(k)

SpecBus == BusInit /\ [][BusNext]_vars

\* --------------------------------------------------------------- retry delay
\* _handle_task_failure's delay (lines 310-313) over retry policies and attempt
\* counts.  Bounds: largest base_delay and max_delay of a policy, largest attempt
\* count, and the number of equally spaced values random.random() is drawn from.
MaxBaseDelay == 3
MaxDelayLimit == 4
MaxAttemptCount == 3
RandomSteps == 2

\* backoff_strategy values: the three the code knows and one it does not.
BackoffStrategies == {"fixed", "linear", "exponential", "polynomial"}

\* RetryPolicy objects (max_attempts plays no part in the delay).
RetryPolicies ==
  [backoff_strategy : BackoffStrategies, base_delay : 0..MaxBaseDelay,
   max_delay : 0..MaxDelayLimit, jitter : BOOLEAN]

Min(a, b) == IF a <= b THEN a ELSE b

\* Variant of BackoffDelay: the exponent is the attempt count itself.
BackoffDelayFromZero(policy, attempt) ==
  CASE policy.backoff_strategy = "fixed" -> policy.base_delay
    [] policy.backoff_strategy = "linear" -> policy.base_delay * attempt
    [] policy.backoff_strategy = "exponential" -> policy.base_delay * 2^attempt
    [] OTHER -> policy.base_delay

\* _calculate_retry_delay lines 334-341: the delay by strategy.
BackoffDelay(policy, attempt) ==
  CASE policy.backoff_strategy = "fixed" -> policy.base_delay
    [] policy.backoff_strategy = "linear" -> policy.base_delay * attempt
    [] policy.backoff_strategy = "exponential" -> policy.base_delay * 2^(attempt - 1)
    [] OTHER -> policy.base_delay

\* Line 344: the max_delay limit is applied.
ClampedDelay(policy, attempt) == Min(BackoffDelay(policy, attempt), policy.max_delay)

\* Lines 347-351: the value returned, as the fraction num/den of a second.  With
\* jitter the clamped delay is multiplied by 0.5 + random.random() * 0.5, where
\* random.random() is r / RandomSteps.
calculate_retry_delay(policy, attempt, r) ==
  IF policy.jitter
  THEN [num |-> ClampedDelay(policy, attempt) * (RandomSteps + r), den |-> 2 * RandomSteps]
  ELSE [num |-> ClampedDelay(policy, attempt), den |-> 1]

\* A task with the given policy fails its attempt-th attempt with attempts left: the
\* delay is calculated and slept (lines 310-313).
RetryDelay(policy, attempt, r) ==
  /\ delay_call = NoneVal
  /\ delay_call' = Some([policy |-> policy, attempt |-> attempt,
                         before_jitter |-> ClampedDelay(policy, attempt),
                         slept |-> calculate_retry_delay(policy, attempt, r)])
  /\ UNCHANGED <<orchVars, busVars>>

DelayInit ==
  /\ Built(FALSE, "stop_on_error", [t \in TaskIds |-> << >>], 1,
           [ty \in {"code_generation"} |-> <<Agent("a1", ty)>>])
  /\ subscribers = OrchestratorSubscribers
  /\ invoked = << >>
  /\ publishing = << >>
  /\ delay_call = NoneVal

DelayNext ==
  \E policy \in RetryPolicies, attempt \in 1..MaxAttemptCount, r \in 0..(RandomSteps - 1) :
     RetryDelay(policy, attempt, r)

SpecDelay == DelayInit /\ [][DelayNext]_vars

\* ------------------------------------------------------------- several runs
\* The orchestrator is given further execute_workflow calls once a run has returned.
\* Bound: the number of execute_workflow calls.
MaxRuns == 2

\* Lines 167-180 for a later call: a Workflow object built anew from the same
\* definition (same workflow id, task ids, dependency lists and retry policies) is
\* executed on the same orchestrator.  The call replaces the registry entry of the
\* id; nothing in it touches task_results.
ExecuteAnother ==
  /\ pc \in {"done", "raised"}
  /\ run < MaxRuns
  /\ run' = run + 1
  /\ \E now \in Now :
        workflow' = [NewWorkflow EXCEPT !.status = "running", !.started_at = Some(now)]
  /\ task' = [t \in TaskIds |-> NewTask(t, task[t].dependencies, task[t].max_attempts)]
  /\ active_workflows' = active_workflows \cup {WorkflowId}
  /\ published' = Publish([type |-> "workflow.started", workflow_id |-> WorkflowId])
  /\ pc' = "loop"
  /\ stage_index' = 0
  /\ seq_index' = 1
  /\ launched' = [i \in 1..NumStages |-> NoneVal]
  /\ tpc' = [t \in TaskIds |-> "none"]
  /\ ret' = [t \in TaskIds |-> NoneVal]
  /\ stage_success' = [i \in 1..NumStages |-> NoneVal]
  /\ wf_result' = NoneVal
  /\ dispatched' = [t \in TaskIds |-> 0]
  /\ agent_of' = [t \in TaskIds |-> NoneVal]
  /\ UNCHANGED <<stages, task_results, agents, writes, busVars, delay_call>>

\* The workflows run more than once: the tasks form the dependency chain; a
\* "code_generation" agent is registered at the start, a "testing" one may be later.
RunsInit ==
  /\ \E par \in BOOLEAN, fs \in FailureStrategies, m \in 1..MaxAttempts :
        Built(par, fs,
              [t \in TaskIds |-> CASE t = "t2" -> <<"t1">>
                                   [] t = "t3" -> <<"t2">>
                                   [] t = "t4" -> <<"t3">>
                                   [] OTHER -> << >>],
              m,
              [ty \in {"code_generation"} |-> <<Agent(AgentName(ty, 1), ty)>>])
  /\ subscribers = OrchestratorSubscribers
  /\ invoked = << >>
  /\ publishing = << >>
  /\ delay_call = NoneVal

RunsNext == Next \/ ExecuteAnother

SpecRuns == RunsInit /\ [][RunsNext]_vars

\* ---------------------------------------------------------- agent registries
\* Runs over registries whose agents differ in health.

\* What the health check reads off an agent: free, not active, or at its ceiling.
HealthStates ==
  { [status |-> "active", current_tasks |-> 0],
    [status |-> "inactive", current_tasks |-> 0],
    [status |-> "active", current_tasks |-> Agent("a", "t").max_concurrent_tasks] }

\* register_agent lines 160-165: the list of a type, in registration order; the i-th
\* agent registered for ty has the id AgentName(ty, i) and the health hs[i].
RegisteredList(ty, hs) ==
  [i \in 1..Len(hs) |->
     [Agent(AgentName(ty, i), ty) EXCEPT !.status = hs[i].status,
                                  !.current_tasks = hs[i].current_tasks]]

HealthLists == UNION {[1..n -> HealthStates] : n \in 1..MaxAgents}

\* The registries: any list of up to MaxAgents agents, or no agent at all, for
\* "testing"; an inactive agent and then a free one for "code_generation".
Registries ==
  { [ty \in {"code_generation"} \cup (IF tl = << >> THEN {} ELSE {"testing"}) |->
       IF ty = "testing"
       THEN RegisteredList(ty, tl)
       ELSE RegisteredList(ty, <<[status |-> "inactive", current_tasks |-> 0],
                                 [status |-> "active", current_tasks |-> 0]>>)] :
    tl \in {<< >>} \cup HealthLists }

\* Workflows run over these registries: stage 1 parallel under continue_on_error, t3
\* waiting for t4 and t4 for t1.
AgentsInit ==
  /\ \E m \in 1..MaxAttempts, reg \in Registries :
        Built(TRUE, "continue_on_error",
              [t \in TaskIds |-> CASE t = "t3" -> <<"t4">>
                                   [] t = "t4" -> <<"t1">>
                                   [] OTHER -> << >>],
              m, reg)
  /\ subscribers = OrchestratorSubscribers
  /\ invoked = << >>
  /\ publishing = << >>
  /\ delay_call = NoneVal

SpecAgents == AgentsInit /\ [][Next]_vars

\* ------------------------------------------------------------- agent ceiling
\* Runs whose parallel stage holds two tasks of one capability type served by a single
\* agent.  Bound: the largest max_concurrent_tasks that agent is given.
MaxCeiling == 2

\* An agent whose max_concurrent_tasks attribute is c.
AgentWithCeiling(id, ty, c) == [Agent(id, ty) EXCEPT !.max_concurrent_tasks = c]

\* Stage 1 parallel under continue_on_error, t4 waiting for t1; the "code_generation"
\* agent is registered at the start, a "testing" one may be later.
LoadInit ==
  /\ \E m \in 1..MaxAttempts, c \in 1..MaxCeiling :
        Built(TRUE, "continue_on_error",
              [t \in TaskIds |-> IF t = "t4" THEN <<"t1">> ELSE << >>], m,
              [ty \in {"code_generation"} |->
                 <<AgentWithCeiling(AgentName(ty, 1), ty, c)>>])
  /\ subscribers = OrchestratorSubscribers
  /\ invoked = << >>
  /\ publishing = << >>
  /\ delay_call = NoneVal

SpecLoad == LoadInit /\ [][Next]_vars

\* ------------------------------------------------------------------ claims
\* Position helpers for the claims.
TasksOfStage(s) == {stages[s].tasks[i] : i \in 1..Len(stages[s].tasks)}
DepsOf(t) == {task[t].dependencies[i] : i \in 1..Len(task[t].dependencies)}
RunEnded == pc = "done"

\* C1: a task whose retry policy has max_attempts >= 1 never has attempt_count above
\* max_attempts, and _execute_task is entered for it at most max_attempts times.
C1_AttemptsBounded ==
  \A t \in TaskIds :
    task[t].max_attempts >= 1 =>
      /\ task[t].attempt_count <= task[t].max_attempts
      /\ dispatched[t] <= task[t].max_attempts

\* C1 witness: a task with retries ended FAILED after a mix of failures that used up
\* every attempt its policy allows.
C1_Witness ==
  \E t \in TaskIds :
    /\ task[t].max_attempts = MaxAttempts
    /\ task[t].status = "failed"
    /\ dispatched[t] = task[t].max_attempts

\* C2: every change of a task's status is one of the five transitions of the task
\* state machine, RETRYING is entered only while attempts remain, FAILED only when
\* they are used up; COMPLETED and FAILED never change and SKIPPED is never set.
TaskTransitionAllowed(t) ==
  LET old == task[t].status
      new == task'[t].status
  IN \/ old = new
     \/ old = "pending" /\ new = "running"
     \/ old = "running" /\ new = "completed"
     \/ old = "running" /\ new = "retrying"
          /\ task[t].attempt_count < task[t].max_attempts
     \/ old = "retrying" /\ new = "running"
     \/ old = "running" /\ new = "failed"
          /\ task[t].attempt_count >= task[t].max_attempts

C2_TaskStateMachine == [][\A t \in TaskIds : TaskTransitionAllowed(t)]_vars

\* C2 witness: a task went PENDING, RUNNING, RETRYING, RUNNING, COMPLETED.
C2_Witness ==
  \E t \in TaskIds : task[t].status = "completed" /\ task[t].attempt_count = 2

\* C3: a task that was found eligible or dispatched has a recorded result for every
\* id in its dependency list; so a task with a dependency without a result was never
\* dispatched: it is PENDING with attempt_count 0.
C3_DependencyGating ==
  \A t \in TaskIds :
    (\E d \in DepsOf(t) : d \notin DOMAIN task_results) =>
      /\ tpc[t] = "none"
      /\ dispatched[t] = 0
      /\ task[t].status = "pending"
      /\ task[t].attempt_count = 0

\* C3 witness: the run has ended, a task's dependency ended FAILED without a result,
\* and the task is still PENDING and was never dispatched.
C3_Witness ==
  /\ RunEnded
  /\ \E t \in TaskIds :
       /\ \E d \in DepsOf(t) : task[d].status = "failed" /\ d \notin DOMAIN task_results
       /\ task[t].status = "pending"
       /\ dispatched[t] = 0

\* C4: in a sequential stop_on_error stage, once a task has failed on every attempt
\* no task declared after it in the stage is dispatched, and the stage reports failure.
C4_SequentialStopOnError ==
  \A s \in 1..NumStages :
    (~stages[s].parallel_execution /\ stages[s].failure_strategy = "stop_on_error") =>
      \A i \in 1..Len(stages[s].tasks) :
        task[stages[s].tasks[i]].status = "failed" =>
          /\ \A j \in (i + 1)..Len(stages[s].tasks) :
               /\ task[stages[s].tasks[j]].status = "pending"
               /\ task[stages[s].tasks[j]].attempt_count = 0
               /\ dispatched[stages[s].tasks[j]] = 0
          /\ RunEnded => stage_success[s] = Some(FALSE)

\* C4 witness: the first task of a sequential stop_on_error stage failed twice and the
\* run ended with the tasks after it untouched.
C4_Witness ==
  /\ RunEnded
  /\ ~stages[1].parallel_execution
  /\ stages[1].failure_strategy = "stop_on_error"
  /\ task["t1"].status = "failed"
  /\ task["t1"].attempt_count = 2
  /\ task["t2"].status = "pending"
  /\ stage_success[1] = Some(FALSE)

\* C5: a sequential continue_on_error stage of mutually independent tasks is reported
\* successful whatever its tasks did, and every one of its tasks was run to COMPLETED
\* or, its attempts used up, to FAILED.
C5_ContinueOnError ==
  \A s \in 1..NumStages :
    ( /\ ~stages[s].parallel_execution
      /\ stages[s].failure_strategy = "continue_on_error"
      /\ \A t \in TasksOfStage(s) : DepsOf(t) = {}
      /\ stage_success[s] # NoneVal ) =>
        /\ stage_success[s] = Some(TRUE)
        /\ \A t \in TasksOfStage(s) :
             \/ task[t].status = "completed"
             \/ task[t].status = "failed" /\ task[t].attempt_count >= task[t].max_attempts

\* C6: a parallel stage hands every task that is eligible at that moment to the join
\* at once; when the stage outcome exists every launched task is COMPLETED or FAILED,
\* and the outcome is true exactly when all of them are COMPLETED (so true when none
\* was eligible).
EligibleNow(t) == DepsOf(t) \subseteq DOMAIN task_results

C6_JoinComplete ==
  \A s \in 1..NumStages :
    (stages[s].parallel_execution /\ stage_success[s] # NoneVal) =>
      /\ launched[s] # NoneVal
      /\ \A i \in 1..Len(launched[s][1]) :
           task[launched[s][1][i]].status \in {"completed", "failed"}
      /\ stage_success[s] =
           Some(\A i \in 1..Len(launched[s][1]) :
                  task[launched[s][1][i]].status = "completed")

C6_LaunchedTogether ==
  \A s \in 1..NumStages :
    (launched[s] = NoneVal /\ launched'[s] # NoneVal) =>
      /\ launched'[s][1] = SelectSeq(stages[s].tasks, EligibleNow)
      /\ \A i \in 1..Len(launched'[s][1]) : tpc'[launched'[s][1][i]] = "ready"

C6_ParallelJoin == []C6_JoinComplete /\ [][C6_LaunchedTogether]_vars

\* C7: when a stop_on_error stage has reported failure the run halts at once: the
\* workflow is FAILED with an error message, workflow.failed has been published,
\* execute_workflow returns False and no task of a later stage was dispatched.
C7_HaltStep ==
  ( /\ pc = "stage_done"
    /\ stage_success[stage_index + 1] = Some(FALSE)
    /\ stages[stage_index + 1].failure_strategy = "stop_on_error" ) =>
      /\ pc' = "done"
      /\ wf_result' = Some(FALSE)
      /\ workflow'.status = "failed"
      /\ workflow'.error_details # NoneVal
      /\ \A s \in (stage_index + 2)..NumStages :
           \A t \in TasksOfStage(s) : dispatched'[t] = 0
      /\ \E i \in 1..Len(published') :
           /\ published'[i].type = "workflow.failed"
           /\ published'[i].workflow_id = workflow.id

C7_HaltOnStageFailure == [][C7_HaltStep]_vars

\* C8: the workflow status only moves toward a terminal state: COMPLETED, FAILED and
\* CANCELLED never change again, and nothing goes back to PENDING (RUNNING and PAUSED
\* are the only pair that goes both ways).
C8_StatusStep ==
  /\ workflow.status \in {"completed", "failed", "cancelled"} =>
       workflow'.status = workflow.status
  /\ workflow'.status = "pending" => workflow.status = "pending"

C8_StatusMonotonic == [][C8_StatusStep]_vars

\* C9: a pause or cancel leaves the tasks in flight alone, and while the workflow is
\* CANCELLED or PAUSED the execution loop starts no further stage.
C9_Step ==
  /\ (workflow'.status # workflow.status /\ workflow'.status \in {"cancelled", "paused"})
       => UNCHANGED <<task, tpc, ret, pc, task_results>>
  /\ (workflow.status \in {"cancelled", "paused"} /\ pc = "loop" /\ stage_index < NumStages)
       => (pc' = "loop" /\ workflow'.current_stage = workflow.current_stage)

C9_ObservedBetweenStages == [][C9_Step]_vars

\* C10: pause, resume and cancel on an id that is not in active_workflows change
\* nothing; resume on a workflow that is not PAUSED changes nothing; each of the three
\* called again right after itself (pause of a paused, cancel of a cancelled, resume
\* of a resumed workflow) leaves what the first call left.
C10_Step ==
  \A id \in WorkflowIds :
    /\ ( /\ id \notin active_workflows
         /\ (pause_workflow(id) \/ resume_workflow(id) \/ cancel_workflow(id)) )
         => UNCHANGED vars
    /\ (workflow.status # "paused" /\ resume_workflow(id)) => UNCHANGED vars
    /\ (workflow.status = "paused" /\ pause_workflow(id)) => UNCHANGED vars
    /\ (workflow.status = "cancelled" /\ cancel_workflow(id)) => UNCHANGED vars

C10_AdminNoOps == [][C10_Step]_vars

\* The callbacks subscribed to an event type, and the invocations a publish of d to
\* the list makes when every callback is reached.
SubscribedTo(e) == IF e \in DOMAIN subscribers THEN subscribers[e] ELSE << >>
CallsOf(list, d) == [i \in 1..Len(list) |-> CallEntry(list[i], d)]

\* C11: a publish call invokes exactly the callbacks subscribed to its event type,
\* once each, in subscription order, with the published data: whenever its loop runs
\* it invokes the callbacks that follow the one reached before, and it returns having
\* reached the last one; a callback that raises does not keep the later ones from
\* being invoked, no exception leaves publish, and with no subscriber nothing is
\* invoked.
C11_Step ==
  invoked' # invoked =>
    /\ \E k \in 1..Len(publishing') :
          LET p == publishing'[k]
              called == k > Len(publishing)
              from == IF called THEN 0 ELSE publishing[k].pos
              entry == IF called THEN <<PublishEntry(p.event, p.data)>> ELSE << >>
              list == SubscribedTo(p.event)
          IN /\ Len(publishing') = Len(publishing) + (IF called THEN 1 ELSE 0)
             /\ \A j \in 1..Len(publishing) : j # k => publishing'[j] = publishing[j]
             /\ from <= p.pos /\ p.pos <= Len(list)
             /\ invoked' = invoked \o entry \o SubSeq(CallsOf(list, p.data), from + 1, p.pos)
             /\ p.state \in {"suspended", "returned"}
             /\ p.state = "returned" => p.pos = Len(list)
    /\ ~escaped'
    /\ subscribers' = subscribers
C11_PublishDelivery == [][C11_Step]_vars

\* The workflow.stage_completed events published so far, and the positions in the
\* record of published events that hold an event of the given type.
StageEvents == SelectSeq(published, LAMBDA x : x.type = "workflow.stage_completed")
PositionsOf(type) == {i \in 1..Len(published) : published[i].type = type}

\* C12: every stage the run has executed has exactly one workflow.stage_completed
\* event, carrying the stage's index and its outcome (false for a failed stage); the
\* events come in increasing index order, after workflow.started and before
\* workflow.completed or workflow.failed.
C12_StageCompletedEvents ==
  /\ \A s \in 1..NumStages :
        LET mine == {i \in 1..Len(StageEvents) : StageEvents[i].stage_index = s - 1}
        IN /\ (stage_success[s] # NoneVal /\ (stage_index > s - 1 \/ RunEnded)) =>
                /\ Cardinality(mine) = 1
                /\ \A i \in mine : StageEvents[i].success = stage_success[s][1]
           /\ stage_success[s] = NoneVal => mine = {}
  /\ \A i, j \in 1..Len(StageEvents) :
        i < j => StageEvents[i].stage_index < StageEvents[j].stage_index
  /\ \A i \in PositionsOf("workflow.stage_completed") :
        /\ \E k \in PositionsOf("workflow.started") : k < i
        /\ \A k \in PositionsOf("workflow.completed") \cup PositionsOf("workflow.failed") :
              i < k

\* A stage that failed under stop_on_error.
HaltingStage(s) ==
  stages[s].failure_strategy = "stop_on_error" /\ stage_success[s] = Some(FALSE)

\* C13: a stage failure reaches the workflow only under stop_on_error.  A run returns
\* False exactly when a stop_on_error stage failed; after a continue_on_error or
\* retry_failed stage that holds a FAILED task every later stage is still executed
\* (up to a stop_on_error failure), and a run that returns True leaves the workflow
\* COMPLETED.
C13_Ended ==
  RunEnded =>
    /\ wf_result = Some(FALSE) <=> \E s \in 1..NumStages : HaltingStage(s)
    /\ \A s \in 1..NumStages :
          (/\ stages[s].failure_strategy # "stop_on_error"
           /\ \E t \in TasksOfStage(s) : task[t].status = "failed") =>
            \A later \in (s + 1)..NumStages :
               (\A between \in (s + 1)..(later - 1) : ~HaltingStage(between)) =>
                 stage_success[later] # NoneVal
C13_ReturnStep ==
  (wf_result = NoneVal /\ wf_result' = Some(TRUE)) => workflow'.status = "completed"
C13_FailureStaysInStage == []C13_Ended /\ [][C13_ReturnStep]_vars

\* A run over a continue_on_error or retry_failed stage with a FAILED task that went
\* on through the last stage and returned True with the workflow COMPLETED.
C13_Witness ==
  /\ RunEnded
  /\ stages[1].failure_strategy # "stop_on_error"
  /\ \E t \in TasksOfStage(1) : task[t].status = "failed"
  /\ stage_success[1] = Some(FALSE)
  /\ stage_success[NumStages] = Some(TRUE)
  /\ wf_result = Some(TRUE)
  /\ workflow.status = "completed"

\* C14: the retry delay before jitter is min(base_delay, max_delay) for fixed,
\* min(base_delay * a, max_delay) for linear and min(base_delay * 2^(a-1), max_delay)
\* for exponential, hence at most max_delay; with jitter disabled the delay slept is
\* this value.
C14_RetryDelay ==
  delay_call # NoneVal =>
    LET p == delay_call[1].policy
        a == delay_call[1].attempt
        before == delay_call[1].before_jitter
        slept == delay_call[1].slept
        capped(x) == IF x <= p.max_delay THEN x ELSE p.max_delay
    IN /\ p.backoff_strategy = "fixed" => before = capped(p.base_delay)
       /\ p.backoff_strategy = "linear" => before = capped(p.base_delay * a)
       /\ p.backoff_strategy = "exponential" => before = capped(p.base_delay * 2^(a - 1))
       /\ p.backoff_strategy \in {"fixed", "linear", "exponential"} => before <= p.max_delay
       /\ ~p.jitter => slept.num = before * slept.den

\* An exponential third attempt that is below the limit, so that the exponent shows,
\* with jitter disabled.
C14_Witness ==
  /\ delay_call # NoneVal
  /\ delay_call[1].policy.backoff_strategy = "exponential"
  /\ delay_call[1].attempt = 3
  /\ delay_call[1].policy.base_delay = 1
  /\ delay_call[1].before_jitter = 4
  /\ ~delay_call[1].policy.jitter
  /\ delay_call[1].slept = [num |-> 4, den |-> 1]

\* The tasks handed to asyncio.gather for stage s (none before the stage was begun).
LaunchedOf(s) ==
  IF launched[s] = NoneVal THEN {}
  ELSE {launched[s][1][i] : i \in 1..Len(launched[s][1])}

\* C15: in a parallel stage eligibility is decided once, before anything of the stage
\* is launched.  A task that depends on a task of the same parallel stage is never
\* dispatched in that pass, not even after the sibling completed; only launched tasks
\* are dispatched; and no launched task depends on another launched task.
C15_SnapshotGating ==
  \A s \in 1..NumStages :
    stages[s].parallel_execution =>
      /\ \A t \in TasksOfStage(s) :
            DepsOf(t) \cap TasksOfStage(s) # {} => dispatched[t] = 0 /\ t \notin LaunchedOf(s)
      /\ \A t \in TasksOfStage(s) : dispatched[t] > 0 => t \in LaunchedOf(s)
      /\ \A t, u \in LaunchedOf(s) : u \notin DepsOf(t)

\* The pass of a parallel stage is still under way, t1 has completed and its result is
\* stored, so its sibling t2 would be eligible now, and t2 was not dispatched.
C15_Witness ==
  /\ stages[1].parallel_execution
  /\ pc = "gather"
  /\ launched[1] = Some(<<"t1">>)
  /\ DepsOf("t2") = {"t1"}
  /\ task["t1"].status = "completed"
  /\ EligibleNow("t2")
  /\ dispatched["t2"] = 0

\* C16: in a sequential stage at most one task is RUNNING or RETRYING at any time, and
\* tasks are dispatched in declared order: when a task is dispatched for the first
\* time, every task of the stage dispatched before it is COMPLETED or FAILED and no
\* task declared after it has been dispatched.
C16_OneAtATime ==
  \A s \in 1..NumStages :
    ~stages[s].parallel_execution =>
      Cardinality({t \in TasksOfStage(s) : task[t].status \in {"running", "retrying"}}) <= 1
C16_DispatchStep ==
  \A s \in 1..NumStages : \A j \in 1..Len(stages[s].tasks) :
    (/\ ~stages[s].parallel_execution
     /\ dispatched[stages[s].tasks[j]] = 0
     /\ dispatched'[stages[s].tasks[j]] > 0) =>
       /\ \A i \in 1..(j - 1) :
             \/ dispatched[stages[s].tasks[i]] = 0
             \/ task[stages[s].tasks[i]].status \in {"completed", "failed"}
       /\ \A k \in (j + 1)..Len(stages[s].tasks) : dispatched[stages[s].tasks[k]] = 0
C16_SequentialOrder == []C16_OneAtATime /\ [][C16_DispatchStep]_vars

\* A sequential stage where t1 was retried and has completed, t2 is running and t3
\* has not been dispatched.
C16_Witness ==
  /\ ~stages[1].parallel_execution
  /\ task["t1"].status = "completed" /\ task["t1"].attempt_count = 2
  /\ task["t2"].status = "running"
  /\ dispatched["t3"] = 0

\* C17: the result store is written at most once per task id.  Every key written is
\* the id of a task that completed successfully and was written exactly once; a write
\* happens on the step that takes its task to COMPLETED; an entry never changes or
\* disappears afterwards.
C17_WrittenOnce ==
  /\ DOMAIN writes = DOMAIN task_results
  /\ \A k \in DOMAIN writes :
        /\ writes[k] = 1
        /\ k \in TaskIds
        /\ task[k].status = "completed"
  /\ \A t \in TaskIds : task[t].status = "completed" => t \in DOMAIN task_results
C17_WriteStep ==
  /\ \A k \in DOMAIN task_results :
        k \in DOMAIN task_results' /\ task_results'[k] = task_results[k]
  /\ \A k \in DOMAIN writes' :
        (k \notin DOMAIN writes \/ writes'[k] # writes[k]) =>
          /\ k \in TaskIds
          /\ task[k].status # "completed" /\ task'[k].status = "completed"
C17_ResultWrittenOnce == []C17_WrittenOnce /\ [][C17_WriteStep]_vars

\* A parallel stage whose three tasks all stored a result, t1 on its second attempt,
\* followed by the task of the next stage: four keys, each written once.
C17_Witness ==
  /\ stages[1].parallel_execution
  /\ task["t1"].attempt_count = 2
  /\ DOMAIN task_results = TaskIds
  /\ \A t \in TaskIds : writes[t] = 1

\* C18: the result store is scoped to one run.  A task that a run dispatches has every
\* dependency completed by a task of that same run, so a result left by another run
\* never opens the gate; task holds the Task objects of the current run only.
C18_RunScopedResults ==
  \A t \in TaskIds :
    dispatched[t] > 0 => \A d \in DepsOf(t) : task[d].status = "completed"

\* C19: a task has output only if it is COMPLETED; a COMPLETED task has no error
\* message, also when it succeeded on a retry; a FAILED task has an error message and
\* no output.
C19_OutputErrorExclusive ==
  \A t \in TaskIds :
    /\ task[t].output_data # NoneVal => task[t].status = "completed"
    /\ task[t].status = "completed" => task[t].error_details = NoneVal
    /\ task[t].status = "failed" =>
          task[t].error_details # NoneVal /\ task[t].output_data = NoneVal

\* The agent the selection is to return for a capability type: the first one in
\* registration order that is active and below its ceiling, none without one.
FirstHealthy(ty) ==
  IF ty \notin DOMAIN agents THEN NoneVal
  ELSE LET ok == {i \in 1..Len(agents[ty]) :
                    /\ agents[ty][i].status = "active"
                    /\ agents[ty][i].current_tasks < agents[ty][i].max_concurrent_tasks}
       IN IF ok = {} THEN NoneVal
          ELSE Some(agents[ty][CHOOSE i \in ok : \A j \in ok : i <= j].agent_id)

\* C20: the agent selected for a task is the first healthy agent of its type in
\* registration order, as the registry stands at the lookup, none when there is no
\* such agent or the type is not registered; the agent call is awaited with the agent
\* found and only with one.  A dispatch that finds no agent is a failed attempt like
\* any other: the attempt stays counted, the error is recorded, and the task goes
\* RETRYING while attempts remain and FAILED with _execute_task returning False
\* otherwise.
C20_Selection ==
  \A t \in TaskIds : tpc[t] = "agent" => agent_of[t] # NoneVal
C20_LookupStep ==
  \A t \in TaskIds :
    (tpc[t] = "entered" /\ tpc'[t] # "entered") =>
       /\ agent_of'[t] = FirstHealthy(task[t].agent_type)
       /\ tpc'[t] = "agent" <=> FirstHealthy(task[t].agent_type) # NoneVal
C20_NoAgentStep ==
  \A t \in TaskIds :
    (/\ tpc[t] = "entered" /\ tpc'[t] # "entered"
     /\ FirstHealthy(task[t].agent_type) = NoneVal) =>
       /\ task'[t].attempt_count = task[t].attempt_count
       /\ task[t].attempt_count >= 1
       /\ task'[t].error_details # NoneVal
       /\ IF task[t].attempt_count < task[t].max_attempts
          THEN task'[t].status = "retrying" /\ tpc'[t] = "sleep" /\ ret'[t] = NoneVal
          ELSE task'[t].status = "failed" /\ tpc'[t] = "done" /\ ret'[t] = Some(FALSE)
C20_AgentSelection ==
  []C20_Selection /\ [][C20_LookupStep /\ C20_NoAgentStep]_vars

\* t1's type has agents but none healthy: t1 used both attempts and is FAILED with
\* _execute_task returning False; t2 was given the second agent of its type, the
\* first one not being active.
C20_Witness ==
  /\ "testing" \in DOMAIN agents
  /\ task["t1"].status = "failed" /\ task["t1"].attempt_count = 2
  /\ ret["t1"] = Some(FALSE)
  /\ agent_of["t1"] = NoneVal
  /\ Len(agents["code_generation"]) = 2
  /\ agent_of["t2"] = Some(agents["code_generation"][2].agent_id)

\* C21: every run of execute_workflow terminates and returns a boolean without
\* raising.  A failed attempt of a task (agent error, timeout, no agent) stays inside
\* the task dispatch: nothing raised by an agent call leaves _execute_task or
\* execute_workflow, it leads to a retry or to _execute_task returning False, and until
\* execute_workflow returns the run goes on.  On the step that returns True the
\* workflow is COMPLETED, on the step that returns False it is FAILED.
C21_Returned ==
  /\ pc # "raised"
  /\ RunEnded <=> wf_result # NoneVal
  /\ wf_result \in {NoneVal, Some(TRUE), Some(FALSE)}
  /\ \A t \in TaskIds :
        /\ tpc[t] # "raised"
        /\ tpc[t] = "done" <=> ret[t] # NoneVal
        /\ ret[t] \in {NoneVal, Some(TRUE), Some(FALSE)}
        /\ task[t].status = "failed" => ret[t] = Some(FALSE)
C21_ReturnStep ==
  /\ (wf_result = NoneVal /\ wf_result' = Some(TRUE)) => workflow'.status = "completed"
  /\ (wf_result = NoneVal /\ wf_result' = Some(FALSE)) => workflow'.status = "failed"
  /\ \A t \in TaskIds :
        (task[t].status = "running" /\ task'[t].status # "running") =>
          /\ task'[t].status \in {"completed", "retrying", "failed"}
          /\ ~RunEnded'
C21_Termination == <>RunEnded /\ []C21_Returned /\ [][C21_ReturnStep]_vars

\* The tasks whose agent call on agent a is under way.
InFlight(a) == {t \in TaskIds : tpc[t] = "agent" /\ agent_of[t] = Some(a)}

\* C22: the number of tasks in flight on an agent at the same time never exceeds the
\* agent's max_concurrent_tasks.
C22_CeilingRespected ==
  \A ty \in DOMAIN agents : \A i \in 1..Len(agents[ty]) :
    Cardinality(InFlight(agents[ty][i].agent_id)) <= agents[ty][i].max_concurrent_tasks

====
